---- MODULE Spec2Model ----
(***************************************************************************)
(* A model of the artist endpoints of the spotify client package           *)
(* (artist.go): FindArtist, FindArtists, ArtistsTopTracks,                 *)
(* FindRelatedArtists, ArtistAlbums and ArtistAlbumsOpt, the package-level *)
(* wrappers around DefaultClient, the HTTP transport they call, and the    *)
(* encoding/json and net/url conversions they rely on.                     *)
(*                                                                         *)
(* Text is a sequence of atoms.  An atom is either a run of unreserved     *)
(* characters ("US", "albums", "7") or one reserved character ("&", "=",   *)
(* ",", " ", "?", "/").  Escaping, joining, splitting and number           *)
(* formatting work atom by atom, the way the Go functions work byte by     *)
(* byte.                                                                   *)
(***************************************************************************)
EXTENDS Integers, Sequences, FiniteSets, TLC

(* ------------------------------ bounds -------------------------------- *)

\* longest ids list given to FindArtists
MaxIds == 4
\* longest artists array the transport puts in a body
MaxElems == 2
\* number of calls in flight in the concurrent specification
NumCalls == 2

(* --------------------------- option values ---------------------------- *)

\* a nil pointer, a nil slice, a nil error
Nil == << >>
\* a non-nil pointer to x, a non-nil slice x, a non-nil error x
Some(x) == << x >>
IsNil(p) == Len(p) = 0
Deref(p) == p[1]

(* ------------------------------- text --------------------------------- *)

RECURSIVE Join(_, _)
\* strings.Join(elems, sep)
Join(elems, sep) ==
    IF Len(elems) = 0 THEN << >>
    ELSE IF Len(elems) = 1 THEN elems[1]
    ELSE elems[1] \o sep \o Join(Tail(elems), sep)

RECURSIVE Split(_, _)
\* strings.Split(s, sep) for a one-atom separator; used to read a request back
Split(s, sep) ==
    IF \A i \in 1..Len(s) : s[i] # sep THEN << s >>
    ELSE LET i == CHOOSE j \in 1..Len(s) :
                     s[j] = sep /\ \A m \in 1..(j - 1) : s[m] # sep
         IN  << SubSeq(s, 1, i - 1) >> \o Split(SubSeq(s, i + 1, Len(s)), sep)

Digit(d) == CASE d = 0 -> "0" [] d = 1 -> "1" [] d = 2 -> "2" [] d = 3 -> "3"
              [] d = 4 -> "4" [] d = 5 -> "5" [] d = 6 -> "6" [] d = 7 -> "7"
              [] d = 8 -> "8" [] d = 9 -> "9"

RECURSIVE Digits(_)
Digits(n) == IF n < 10 THEN << Digit(n) >>
             ELSE Digits(n \div 10) \o << Digit(n % 10) >>

\* strconv.Itoa: base-10 text, one atom per character, "-" first when negative
Itoa(n) == IF n < 0 THEN << "-" >> \o Digits(0 - n) ELSE Digits(n)

DigitVal(c) == CASE c = "0" -> 0 [] c = "1" -> 1 [] c = "2" -> 2 [] c = "3" -> 3
                 [] c = "4" -> 4 [] c = "5" -> 5 [] c = "6" -> 6 [] c = "7" -> 7
                 [] c = "8" -> 8 [] c = "9" -> 9 [] OTHER -> 0 - 1

RECURSIVE AtoiFrom(_, _)
AtoiFrom(s, acc) == IF Len(s) = 0 THEN acc
                    ELSE AtoiFrom(Tail(s), acc * 10 + DigitVal(Head(s)))

IsNumeral(s) ==
    LET body == IF Len(s) > 0 /\ s[1] = "-" THEN Tail(s) ELSE s
    IN  Len(body) > 0 /\ \A i \in 1..Len(body) : DigitVal(body[i]) >= 0

\* the integer a base-10 numeral denotes; used to read a request back
Atoi(s) == IF s[1] = "-" THEN 0 - AtoiFrom(Tail(s), 0) ELSE AtoiFrom(s, 0)

\* variant: no escaping at all
QueryEscapeNoop(a) == a

\* url.QueryEscape on one atom: a space becomes "+", any other reserved
\* character its %XX form, unreserved characters stay
EscapeAtom(a) ==
    CASE a = " " -> "+"
      [] a = "&" -> "%26"
      [] a = "=" -> "%3D"
      [] a = "," -> "%2C"
      [] a = "?" -> "%3F"
      [] a = "/" -> "%2F"
      [] OTHER   -> a

\* url.QueryEscape(s)
QueryEscape(s) == [i \in 1..Len(s) |-> EscapeAtom(s[i])]

UnescapeAtom(a) ==
    CASE a = "+"   -> " "
      [] a = "%26" -> "&"
      [] a = "%3D" -> "="
      [] a = "%2C" -> ","
      [] a = "%3F" -> "?"
      [] a = "%2F" -> "/"
      [] OTHER     -> a

\* url.QueryUnescape(s); used to read a request back as the service does
QueryUnescape(s) == [i \in 1..Len(s) |-> UnescapeAtom(s[i])]

(* ------------------------------ url.Values ---------------------------- *)

\* url.Values{}: a map from parameter name to its value
EmptyValues == [k \in {} |-> << >>]

\* url.Values.Set(key, value): replaces any value the key had
SetValue(values, key, value) ==
    [k \in (DOMAIN values) \cup {key} |-> IF k = key THEN value ELSE values[k]]

\* the byte order of the parameter names the package uses
KeyRank(k) == CASE k = "album_type" -> 1 [] k = "ids" -> 2 [] k = "limit" -> 3
                [] k = "market" -> 4 [] k = "offset" -> 5

RECURSIVE SortKeys(_)
\* sort.Strings over the keys of a url.Values
SortKeys(keys) ==
    IF keys = {} THEN << >>
    ELSE LET k == CHOOSE x \in keys : \A y \in keys : KeyRank(x) <= KeyRank(y)
         IN  << k >> \o SortKeys(keys \ {k})

\* url.Values.Encode(): "key=value" pairs, sorted by key, joined by "&",
\* keys and values query-escaped
Encode(values) ==
    LET keys == SortKeys(DOMAIN values)
    IN  Join([i \in 1..Len(keys) |->
                 QueryEscape(<< keys[i] >>) \o << "=" >> \o QueryEscape(values[keys[i]])],
             << "&" >>)

(* ------------------------- Options and AlbumType ---------------------- *)

baseAddress == "https://api.spotify.com/v1/"

CountryUSA == << "US" >>

\* the n-th bit of an AlbumType bit mask
HasFlag(at, flag) == (at \div flag) % 2 = 1

\* AlbumType.encode(): the names of the categories set in the mask, joined
\* by commas
AlbumTypeEncode(at) ==
    Join(  (IF HasFlag(at, 1) THEN << << "album" >> >> ELSE << >>)
        \o (IF HasFlag(at, 2) THEN << << "single" >> >> ELSE << >>)
        \o (IF HasFlag(at, 4) THEN << << "appears_on" >> >> ELSE << >>)
        \o (IF HasFlag(at, 8) THEN << << "compilation" >> >> ELSE << >>),
         << "," >>)

\* an Options value: each field a pointer, nil when unset
Options(country, limit, offset) ==
    [Country |-> country, Limit |-> limit, Offset |-> offset]

(* ---------------------------- request URLs ---------------------------- *)

\* FindArtist: baseAddress + "artists/" + id
FindArtistURI(id) == << baseAddress, "artists", "/" >> \o id

\* FindArtists: baseAddress + "artists?ids=" + the ids joined by ","
FindArtistsURI(ids) ==
    << baseAddress, "artists", "?", "ids", "=" >> \o Join(ids, << "," >>)

\* ArtistsTopTracks: baseAddress + "artists/" + id + "/top-tracks?country=" + country
ArtistsTopTracksURI(artistID, country) ==
    << baseAddress, "artists", "/" >> \o artistID
        \o << "/", "top-tracks", "?", "country", "=" >> \o country

\* FindRelatedArtists: baseAddress + "artists/" + id + "/related-artists"
FindRelatedArtistsURI(id) ==
    << baseAddress, "artists", "/" >> \o id \o << "/", "related-artists" >>

\* values.Set("album_type", t.encode()) when t is non-nil
WithAlbumType(values, t) ==
    IF ~IsNil(t) THEN SetValue(values, "album_type", AlbumTypeEncode(Deref(t)))
    ELSE values

\* variant: market left out when Country is nil
WithMarketNoFallback(values, options) ==
    IF ~IsNil(options.Country) THEN SetValue(values, "market", Deref(options.Country))
    ELSE values

\* values.Set("market", *options.Country), or CountryUSA when Country is nil
WithMarket(values, options) ==
    IF ~IsNil(options.Country) THEN SetValue(values, "market", Deref(options.Country))
    ELSE SetValue(values, "market", CountryUSA)

\* values.Set("limit", strconv.Itoa(*options.Limit)) when Limit is non-nil
WithLimit(values, options) ==
    IF ~IsNil(options.Limit) THEN SetValue(values, "limit", Itoa(Deref(options.Limit)))
    ELSE values

\* values.Set("offset", strconv.Itoa(*options.Offset)) when Offset is non-nil
WithOffset(values, options) ==
    IF ~IsNil(options.Offset) THEN SetValue(values, "offset", Itoa(Deref(options.Offset)))
    ELSE values

\* the url.Values ArtistAlbumsOpt fills in for non-nil options
AlbumsValues(options, t) ==
    WithOffset(WithLimit(WithMarket(WithAlbumType(EmptyValues, t), options), options),
               options)

\* ArtistAlbumsOpt: baseAddress + "artists/" + id + "/albums", and "?" + the
\* encoded values when options is non-nil and the encoding is not empty
ArtistAlbumsOptURI(artistID, options, t) ==
    LET uri == << baseAddress, "artists", "/" >> \o artistID \o << "/", "albums" >>
    IN  IF ~IsNil(options)
        THEN LET query == Encode(AlbumsValues(Deref(options), t))
             IN  IF query # << >> THEN uri \o << "?" >> \o query ELSE uri
        ELSE uri

(* ----------------------- reading a request back ----------------------- *)

HasQuery(uri) == \E i \in 1..Len(uri) : uri[i] = "?"

\* the text after the first "?" of a URL
RawQuery(uri) ==
    LET i == CHOOSE j \in 1..Len(uri) :
                 uri[j] = "?" /\ \A m \in 1..(j - 1) : uri[m] # "?"
    IN  SubSeq(uri, i + 1, Len(uri))

\* one "key=value" piece as the service reads it
ParsePair(piece) ==
    IF \E i \in 1..Len(piece) : piece[i] = "="
    THEN LET i == CHOOSE j \in 1..Len(piece) :
                      piece[j] = "=" /\ \A m \in 1..(j - 1) : piece[m] # "="
         IN  [key |-> QueryUnescape(SubSeq(piece, 1, i - 1)),
              val |-> QueryUnescape(SubSeq(piece, i + 1, Len(piece)))]
    ELSE [key |-> QueryUnescape(piece), val |-> << >>]

\* url.ParseQuery: the parameters of a URL in order, as the service reads them
Params(uri) ==
    IF ~HasQuery(uri) \/ RawQuery(uri) = << >> THEN << >>
    ELSE LET pieces == Split(RawQuery(uri), "&")
         IN  [i \in 1..Len(pieces) |-> ParsePair(pieces[i])]

\* the values a URL carries for one parameter name, in order
ParamValues(uri, name) ==
    LET ps == Params(uri)
        sel == SelectSeq(ps, LAMBDA p : p.key = << name >>)
    IN  [i \in 1..Len(sel) |-> sel[i].val]

(* -------------------------------- JSON -------------------------------- *)

\* A JSON value: its kind k ("null", "str", "num", "arr", "obj") and, by kind,
\* the string s, the number n, the elements a or the members o.
JNull == [k |-> "null", s |-> "", n |-> 0, a |-> << >>, o |-> << >>]
JStr(str) == [k |-> "str", s |-> str, n |-> 0, a |-> << >>, o |-> << >>]
JNum(num) == [k |-> "num", s |-> "", n |-> num, a |-> << >>, o |-> << >>]
JArr(elems) == [k |-> "arr", s |-> "", n |-> 0, a |-> elems, o |-> << >>]
JObj(members) == [k |-> "obj", s |-> "", n |-> 0, a |-> << >>, o |-> members]
Member(key, val) == [key |-> key, val |-> val]

\* A response body: wf says whether it starts with a well-formed JSON value,
\* v is that value, junk says whether more bytes follow the value.
Body(v) == [wf |-> TRUE, v |-> v, junk |-> FALSE]
BodyWithJunk(v) == [wf |-> TRUE, v |-> v, junk |-> TRUE]
Malformed == [wf |-> FALSE, v |-> JNull, junk |-> FALSE]

\* encoding/json matches an object key to a field name ignoring case
Fold(key) == CASE key = "Artists" -> "artists"
               [] key = "Tracks"  -> "tracks"
               [] OTHER           -> key

HasMember(v, name) ==
    v.k = "obj" /\ \E i \in 1..Len(v.o) : Fold(v.o[i].key) = name

\* the member a field is decoded from: the last one whose key matches
Lookup(v, name) ==
    LET i == CHOOSE j \in 1..Len(v.o) :
                 /\ Fold(v.o[j].key) = name
                 /\ \A m \in (j + 1)..Len(v.o) : Fold(v.o[m].key) # name
    IN  v.o[i].val

Decoded(val) == [ok |-> TRUE, val |-> val]
TypeError(zero) == [ok |-> FALSE, val |-> zero]

\* json: into a string: a JSON string is stored, null leaves the zero value,
\* any other kind is an UnmarshalTypeError
DecodeString(v) ==
    CASE v.k = "str"  -> Decoded(v.s)
      [] v.k = "null" -> Decoded("")
      [] OTHER        -> TypeError("")

\* json: into an int
DecodeInt(v) ==
    CASE v.k = "num"  -> Decoded(v.n)
      [] v.k = "null" -> Decoded(0)
      [] OTHER        -> TypeError(0)

\* json: into a struct field: a key that is absent leaves the zero value
StringField(v, name) ==
    IF HasMember(v, name) THEN DecodeString(Lookup(v, name)) ELSE Decoded("")

IntField(v, name) ==
    IF HasMember(v, name) THEN DecodeInt(Lookup(v, name)) ELSE Decoded(0)

\* the zero FullArtist
ZeroArtist == [Name |-> "", ID |-> "", URI |-> "", Endpoint |-> "", Popularity |-> 0]

\* json: into a FullArtist (the text and number fields of SimpleArtist and
\* FullArtist, by their json tags)
DecodeFullArtist(v) ==
    CASE v.k = "null" -> Decoded(ZeroArtist)
      [] v.k = "obj"  ->
            LET name == StringField(v, "name")
                id   == StringField(v, "id")
                uri  == StringField(v, "uri")
                href == StringField(v, "href")
                pop  == IntField(v, "popularity")
            IN  [ok  |-> name.ok /\ id.ok /\ uri.ok /\ href.ok /\ pop.ok,
                 val |-> [Name |-> name.val, ID |-> id.val, URI |-> uri.val,
                          Endpoint |-> href.val, Popularity |-> pop.val]]
      [] OTHER        -> TypeError(ZeroArtist)

\* json: into a *FullArtist: null is a nil pointer
DecodeFullArtistPtr(v) ==
    IF v.k = "null" THEN Decoded(Nil)
    ELSE LET d == DecodeFullArtist(v) IN [ok |-> d.ok, val |-> Some(d.val)]

\* variant: null elements skipped instead of kept as nil entries
DecodeArtistPtrsDroppingNull(v) ==
    CASE v.k = "null" -> Decoded(Nil)
      [] v.k = "arr"  ->
            LET kept == SelectSeq(v.a, LAMBDA e : e.k # "null")
                ds   == [i \in 1..Len(kept) |-> DecodeFullArtistPtr(kept[i])]
            IN  [ok  |-> \A i \in 1..Len(ds) : ds[i].ok,
                 val |-> Some([i \in 1..Len(ds) |-> ds[i].val])]
      [] OTHER        -> TypeError(Nil)

\* json: into a []*FullArtist: one entry per element, in order; null is a nil
\* slice
DecodeArtistPtrs(v) ==
    CASE v.k = "null" -> Decoded(Nil)
      [] v.k = "arr"  ->
            LET ds == [i \in 1..Len(v.a) |-> DecodeFullArtistPtr(v.a[i])]
            IN  [ok  |-> \A i \in 1..Len(ds) : ds[i].ok,
                 val |-> Some([i \in 1..Len(ds) |-> ds[i].val])]
      [] OTHER        -> TypeError(Nil)

\* json: into a []FullArtist
DecodeArtists(v) ==
    CASE v.k = "null" -> Decoded(Nil)
      [] v.k = "arr"  ->
            LET ds == [i \in 1..Len(v.a) |-> DecodeFullArtist(v.a[i])]
            IN  [ok  |-> \A i \in 1..Len(ds) : ds[i].ok,
                 val |-> Some([i \in 1..Len(ds) |-> ds[i].val])]
      [] OTHER        -> TypeError(Nil)

\* the zero FullTrack and the zero SimpleAlbum
ZeroItem == [Name |-> "", ID |-> ""]

\* json: into a FullTrack or a SimpleAlbum (their name and id)
DecodeItem(v) ==
    CASE v.k = "null" -> Decoded(ZeroItem)
      [] v.k = "obj"  ->
            LET name == StringField(v, "name")
                id   == StringField(v, "id")
            IN  [ok  |-> name.ok /\ id.ok,
                 val |-> [Name |-> name.val, ID |-> id.val]]
      [] OTHER        -> TypeError(ZeroItem)

\* json: into a []FullTrack or a []SimpleAlbum
DecodeItems(v) ==
    CASE v.k = "null" -> Decoded(Nil)
      [] v.k = "arr"  ->
            LET ds == [i \in 1..Len(v.a) |-> DecodeItem(v.a[i])]
            IN  [ok  |-> \A i \in 1..Len(ds) : ds[i].ok,
                 val |-> Some([i \in 1..Len(ds) |-> ds[i].val])]
      [] OTHER        -> TypeError(Nil)

\* json.NewDecoder(body).Decode(&a) with a of type FullArtist: reads the
\* first JSON value of the body and nothing after it
DecodeArtistBody(body) ==
    IF ~body.wf THEN TypeError(ZeroArtist) ELSE DecodeFullArtist(body.v)

\* Decode(&a) with a of type struct{ Artists []*FullArtist }
DecodeArtistsWrapper(body) ==
    IF ~body.wf THEN TypeError(Nil)
    ELSE CASE body.v.k = "null" -> Decoded(Nil)
           [] body.v.k = "obj"  ->
                 IF HasMember(body.v, "artists")
                 THEN DecodeArtistPtrs(Lookup(body.v, "artists"))
                 ELSE Decoded(Nil)
           [] OTHER             -> TypeError(Nil)

\* Decode(&a) with a of type struct{ Artists []FullArtist `json:"artists"` }
DecodeRelatedWrapper(body) ==
    IF ~body.wf THEN TypeError(Nil)
    ELSE CASE body.v.k = "null" -> Decoded(Nil)
           [] body.v.k = "obj"  ->
                 IF HasMember(body.v, "artists")
                 THEN DecodeArtists(Lookup(body.v, "artists"))
                 ELSE Decoded(Nil)
           [] OTHER             -> TypeError(Nil)

\* Decode(&t) with t of type struct{ Tracks []FullTrack `json:"tracks"` }
DecodeTracksWrapper(body) ==
    IF ~body.wf THEN TypeError(Nil)
    ELSE CASE body.v.k = "null" -> Decoded(Nil)
           [] body.v.k = "obj"  ->
                 IF HasMember(body.v, "tracks")
                 THEN DecodeItems(Lookup(body.v, "tracks"))
                 ELSE Decoded(Nil)
           [] OTHER             -> TypeError(Nil)

\* the zero rawPage; Items is the raw text of the items member, Nil when the
\* envelope has none
ZeroRawPage == [Endpoint |-> "", Limit |-> 0, Offset |-> 0, Total |-> 0,
                Next |-> "", Previous |-> "", Items |-> Nil]

\* Decode(&p) with p of type rawPage: the scalar fields by their json tags,
\* the items member kept as raw JSON (a null included)
DecodeRawPage(body) ==
    IF ~body.wf THEN TypeError(ZeroRawPage)
    ELSE CASE body.v.k = "null" -> Decoded(ZeroRawPage)
           [] body.v.k = "obj"  ->
                 LET v      == body.v
                     href   == StringField(v, "href")
                     limit  == IntField(v, "limit")
                     offset == IntField(v, "offset")
                     total  == IntField(v, "total")
                     next   == StringField(v, "next")
                     prev   == StringField(v, "previous")
                 IN  [ok  |-> /\ href.ok /\ limit.ok /\ offset.ok
                              /\ total.ok /\ next.ok /\ prev.ok,
                      val |-> [Endpoint |-> href.val, Limit |-> limit.val,
                               Offset |-> offset.val, Total |-> total.val,
                               Next |-> next.val, Previous |-> prev.val,
                               Items |-> IF HasMember(v, "items")
                                         THEN Some(Lookup(v, "items")) ELSE Nil]]
           [] OTHER             -> TypeError(ZeroRawPage)

\* json.Unmarshal([]byte(p.Items), &result.Albums): empty input is an error
UnmarshalAlbums(items) ==
    IF IsNil(items) THEN TypeError(Nil) ELSE DecodeItems(Deref(items))

(* ------------------------------- errors ------------------------------- *)

\* an error of the transport (http.Client.Get)
TransportError(msg) == [kind |-> "transport", code |-> 0, msg |-> msg]
\* an error of encoding/json
JSONError == [kind |-> "json", code |-> 0, msg |-> ""]
\* the API error decodeError builds from an error envelope
APIError(code, msg) == [kind |-> "api", code |-> code, msg |-> msg]
\* the error decodeError returns for a body that is no error envelope
BadEnvelopeError == [kind |-> "envelope", code |-> 0, msg |-> ""]

IsErrorEnvelope(body) ==
    /\ body.wf
    /\ HasMember(body.v, "error")
    /\ LET e == Lookup(body.v, "error")
       IN  /\ HasMember(e, "status")  /\ Lookup(e, "status").k = "num"
           /\ HasMember(e, "message") /\ Lookup(e, "message").k = "str"

\* decodeError(resp.Body): the error envelope's status and message, or a
\* decode error when the body is no error envelope
decodeError(body) ==
    IF IsErrorEnvelope(body)
    THEN LET e == Lookup(body.v, "error")
         IN  APIError(Lookup(e, "status").n, Lookup(e, "message").s)
    ELSE BadEnvelopeError

(* ------------------------- after c.http.Get --------------------------- *)

\* http.StatusOK
StatusOK == 200

\* What http.Client.Get gave back: an error, or a response with a status
\* and a body.
GetError(e) == [err |-> Some(e), status |-> 0, body |-> Malformed]
Response(status, body) == [err |-> Nil, status |-> status, body |-> body]

\* What a method returns, how many times it read the response body, and
\* whether it closed it.
Returned(result, err, reads, closed) ==
    [result |-> result, err |-> err, reads |-> reads, closed |-> closed]

\* any status of the 2xx class
Is2xx(status) == 200 <= status /\ status <= 299

\* resp.StatusCode != http.StatusOK, negated
StatusIsOK(status) == status = StatusOK

\* variant: the transport's error replaced by one of the package
OnGetErrorWrapped(err) ==
    Returned(Nil, Some(TransportError("spotify: request failed")), 0, FALSE)

\* if err != nil { return nil, err } after c.http.Get
OnGetError(err) == Returned(Nil, err, 0, FALSE)

\* return nil, decodeError(resp.Body), with the deferred resp.Body.Close()
OnBadStatus(body) == Returned(Nil, Some(decodeError(body)), 1, TRUE)

\* variant: the body decoded into a *FullArtist, so that null gives nil, nil
FindArtistReturnPointerTarget(out) ==
    IF ~IsNil(out.err) THEN OnGetError(out.err)
    ELSE IF ~StatusIsOK(out.status) THEN OnBadStatus(out.body)
    ELSE IF ~out.body.wf THEN Returned(Nil, Some(JSONError), 1, TRUE)
    ELSE LET d == DecodeFullArtistPtr(out.body.v)
         IN  IF ~d.ok THEN Returned(Nil, Some(JSONError), 1, TRUE)
             ELSE Returned(d.val, Nil, 1, TRUE)

\* FindArtist from the return of c.http.Get on
FindArtistReturn(out) ==
    IF ~IsNil(out.err) THEN OnGetError(out.err)
    ELSE IF ~StatusIsOK(out.status) THEN OnBadStatus(out.body)
    ELSE LET d == DecodeArtistBody(out.body)
         IN  IF ~d.ok THEN Returned(Nil, Some(JSONError), 1, TRUE)
             ELSE Returned(Some(d.val), Nil, 1, TRUE)

\* FindArtists from the return of c.http.Get on
FindArtistsReturn(out) ==
    IF ~IsNil(out.err) THEN OnGetError(out.err)
    ELSE IF ~StatusIsOK(out.status) THEN OnBadStatus(out.body)
    ELSE LET d == DecodeArtistsWrapper(out.body)
         IN  IF ~d.ok THEN Returned(Nil, Some(JSONError), 1, TRUE)
             ELSE Returned(d.val, Nil, 1, TRUE)

\* ArtistsTopTracks from the return of c.http.Get on
ArtistsTopTracksReturn(out) ==
    IF ~IsNil(out.err) THEN OnGetError(out.err)
    ELSE IF ~StatusIsOK(out.status) THEN OnBadStatus(out.body)
    ELSE LET d == DecodeTracksWrapper(out.body)
         IN  IF ~d.ok THEN Returned(Nil, Some(JSONError), 1, TRUE)
             ELSE Returned(d.val, Nil, 1, TRUE)

\* FindRelatedArtists from the return of c.http.Get on
FindRelatedArtistsReturn(out) ==
    IF ~IsNil(out.err) THEN OnGetError(out.err)
    ELSE IF ~StatusIsOK(out.status) THEN OnBadStatus(out.body)
    ELSE LET d == DecodeRelatedWrapper(out.body)
         IN  IF ~d.ok THEN Returned(Nil, Some(JSONError), 1, TRUE)
             ELSE Returned(d.val, Nil, 1, TRUE)

\* variant: Limit and Offset copied crosswise
AssemblePageSwapped(p, albums) ==
    [Albums |-> albums, Endpoint |-> p.Endpoint, Limit |-> p.Offset,
     Offset |-> p.Limit, Total |-> p.Total, Previous |-> p.Previous,
     Next |-> p.Next]

\* the SimpleAlbumPage filled from the rawPage and the decoded albums
AssemblePage(p, albums) ==
    [Albums |-> albums, Endpoint |-> p.Endpoint, Limit |-> p.Limit,
     Offset |-> p.Offset, Total |-> p.Total, Previous |-> p.Previous,
     Next |-> p.Next]

\* variant: the page filled so far returned along with the second decode's
\* error
ArtistAlbumsOptReturnPartial(out) ==
    IF ~IsNil(out.err) THEN OnGetError(out.err)
    ELSE IF ~StatusIsOK(out.status) THEN OnBadStatus(out.body)
    ELSE LET d == DecodeRawPage(out.body)
         IN  IF ~d.ok THEN Returned(Nil, Some(JSONError), 1, TRUE)
             ELSE LET al == UnmarshalAlbums(d.val.Items)
                  IN  IF ~al.ok
                      THEN Returned(Some(AssemblePage(d.val, Nil)), Some(JSONError), 1, TRUE)
                      ELSE Returned(Some(AssemblePage(d.val, al.val)), Nil, 1, TRUE)

\* ArtistAlbumsOpt from the return of c.http.Get on
ArtistAlbumsOptReturn(out) ==
    IF ~IsNil(out.err) THEN OnGetError(out.err)
    ELSE IF ~StatusIsOK(out.status) THEN OnBadStatus(out.body)
    ELSE LET d == DecodeRawPage(out.body)
         IN  IF ~d.ok THEN Returned(Nil, Some(JSONError), 1, TRUE)
             ELSE LET al == UnmarshalAlbums(d.val.Items)
                  IN  IF ~al.ok THEN Returned(Nil, Some(JSONError), 1, TRUE)
                      ELSE Returned(Some(AssemblePage(d.val, al.val)), Nil, 1, TRUE)

\* variant: ArtistAlbums passing empty options instead of nil
ArtistAlbumsURIEmptyOptions(artistID) ==
    ArtistAlbumsOptURI(artistID, Some(Options(Nil, Nil, Nil)), Nil)

\* ArtistAlbums: c.ArtistAlbumsOpt(artistID, nil, nil)
ArtistAlbumsURI(artistID) == ArtistAlbumsOptURI(artistID, Nil, Nil)

(* --------------------- the service and the transport ------------------ *)

\* all sequences over S of length at most n
SeqsUpTo(S, n) == UNION {[1..m -> S] : m \in 0..n}

\* the ids the catalog knows; "Z" is unknown to the service
Known == {<< "A" >>, << "B" >>}

ArtistJSON(id) ==
    JObj(<< Member("id", JStr(id[1])), Member("name", JStr("artist " \o id[1])),
            Member("popularity", JNum(50)) >>)

ItemJSON(id) == JObj(<< Member("id", JStr(id)), Member("name", JStr("item " \o id)) >>)

ErrorEnvelope(code, msg) ==
    Body(JObj(<< Member("error",
                   JObj(<< Member("status", JNum(code)), Member("message", JStr(msg)) >>)) >>))

PageJSON(href, total, limit, offset, items) ==
    JObj(<< Member("href", href), Member("items", items), Member("limit", limit),
            Member("next", JNull), Member("offset", offset),
            Member("previous", JStr("prev")), Member("total", total) >>)

\* an envelope without one of its members
Without(obj, key) == JObj(SelectSeq(obj.o, LAMBDA m : m.key # key))

TenItems ==
    JArr(<< ItemJSON("j"), ItemJSON("c"), ItemJSON("a"), ItemJSON("h"), ItemJSON("b"),
            ItemJSON("e"), ItemJSON("d"), ItemJSON("g"), ItemJSON("f"), ItemJSON("i") >>)

\* the page of the example: total 37, limit 10, offset 20, ten items
ExamplePage == PageJSON(JStr("albums?offset=20"), JNum(37), JNum(10), JNum(20), TenItems)

SmallPage == PageJSON(JStr("albums"), JNum(1), JNum(20), JNum(0),
                      JArr(<< ItemJSON("b"), ItemJSON("a") >>))

\* what the service answers to GET artists/{id}
ServiceArtist(id) ==
    IF id \in Known THEN Response(200, Body(ArtistJSON(id)))
    ELSE Response(404, ErrorEnvelope(404, "not found"))

\* what the service answers to GET artists?ids=...: one entry per id, in the
\* order asked, null for an id it does not know
ServiceArtists(ids) ==
    Response(200, Body(JObj(<< Member("artists",
        JArr([i \in 1..Len(ids) |->
                 IF ids[i] \in Known THEN ArtistJSON(ids[i]) ELSE JNull])) >>)))

\* bodies of any endpoint
CommonBodies ==
    {Malformed, Body(JNull), Body(JNum(7)), Body(JObj(<< >>)),
     ErrorEnvelope(404, "not found")}

\* bodies sent with a status other than 200
ErrorBodies ==
    {ErrorEnvelope(404, "not found"), Malformed,
     Body(JObj(<< Member("error", JStr("oops")) >>))}

ArtistBodies ==
    {Body(ArtistJSON(<< "A" >>)), BodyWithJunk(ArtistJSON(<< "B" >>)),
     Body(JObj(<< Member("id", JStr("A")), Member("popularity", JStr("high")) >>)),
     Body(JObj(<< Member("id", JStr("A")), Member("id", JStr("B")) >>)),
     Body(JArr(<< ArtistJSON(<< "A" >>) >>))}

ArtistElems == {JNull, ArtistJSON(<< "A" >>), JNum(7)}

ArtistsBodies ==
    {Body(JObj(<< Member("artists", JArr(elems)) >>)) : elems \in SeqsUpTo(ArtistElems, MaxElems)}
    \cup {Body(JObj(<< Member("artists", JNull) >>)),
          Body(JObj(<< Member("artists", JStr("none")) >>)),
          Body(JObj(<< Member("Artists", JArr(<< ArtistJSON(<< "B" >>) >>)) >>)),
          BodyWithJunk(JObj(<< Member("artists", JArr(<< JNull >>)) >>))}

TracksBodies ==
    {Body(JObj(<< Member("tracks", JArr(<< ItemJSON("t2"), ItemJSON("t1") >>)) >>)),
     Body(JObj(<< Member("tracks", JArr(<< JNull >>)) >>)),
     Body(JObj(<< Member("tracks", JArr(<< >>)) >>)),
     Body(JObj(<< Member("tracks", JNum(3)) >>)),
     Body(JObj(<< Member("tracks", JArr(<< JStr("t1") >>)) >>))}

PageBodies ==
    {Body(ExamplePage), Body(SmallPage), BodyWithJunk(SmallPage),
     Body(PageJSON(JStr("albums"), JNum(0), JNum(20), JNum(0), JArr(<< >>))),
     Body(PageJSON(JStr("albums"), JNum(5), JNum(20), JNum(0), JNull)),
     Body(PageJSON(JStr("albums"), JNum(5), JNum(20), JNum(0), JStr("none"))),
     Body(PageJSON(JStr("albums"), JNum(5), JNum(20), JNum(0), JArr(<< JNum(7) >>))),
     Body(PageJSON(JStr("albums"), JStr("many"), JNum(20), JNum(0), JArr(<< >>))),
     Body(PageJSON(JNum(1), JNum(5), JNum(20), JNum(0), JArr(<< >>))),
     Body(PageJSON(JStr("albums"), JNum(5), JArr(<< >>), JNum(0), JArr(<< >>))),
     Body(PageJSON(JStr("albums"), JNum(5), JNum(20), JStr("0"), JArr(<< >>))),
     Body(Without(SmallPage, "items")), Body(Without(SmallPage, "total")),
     Body(Without(SmallPage, "href")), Body(Without(SmallPage, "limit")),
     Body(Without(SmallPage, "offset"))}

\* the statuses the transport reports besides 200
OtherStatuses == {201, 204, 404}

\* the 200 bodies the transport may deliver to a call
Bodies200(c) ==
    CommonBodies \cup
    CASE c.method = "FindArtist"         -> ArtistBodies
      [] c.method = "FindArtists"        -> ArtistsBodies
      [] c.method = "ArtistsTopTracks"   -> TracksBodies
      [] c.method = "FindRelatedArtists" -> ArtistsBodies
      [] OTHER                           -> PageBodies

\* what the service itself answers to a call
ServiceAnswer(c) ==
    CASE c.method = "FindArtist"         -> {ServiceArtist(c.id)}
      [] c.method = "FindArtists"        -> {ServiceArtists(c.ids)}
      [] c.method = "ArtistsTopTracks"   -> {Response(200, Body(JObj(<< Member("tracks", JArr(<< ItemJSON("t1") >>)) >>)))}
      [] c.method = "FindRelatedArtists" -> {Response(200, Body(JObj(<< Member("artists", JArr(<< ArtistJSON(<< "B" >>) >>)) >>)))}
      [] OTHER                           -> {Response(200, Body(SmallPage))}

\* everything http.Client.Get may return to a call: an error, the service's
\* answer, or any status with any body
Outcomes(c, rich) ==
    IF rich
    THEN {GetError(TransportError("timeout")), GetError(TransportError("refused"))}
         \cup ServiceAnswer(c)
         \cup {Response(200, b) : b \in Bodies200(c)}
         \cup {Response(st, b) : st \in OtherStatuses, b \in ErrorBodies}
    ELSE {GetError(TransportError("timeout"))} \cup ServiceAnswer(c)

(* ------------------------------ arguments ----------------------------- *)

\* the ids given to FindArtist and FindRelatedArtists
Ids(rich) == IF rich THEN {<< "A" >>, << "B" >>, << "Z" >>} ELSE {<< "Z" >>}

\* the ids given to ArtistsTopTracks and ArtistAlbums
PathIds(rich) == IF rich THEN {<< "A" >>, << "Z" >>} ELSE {<< "A" >>}

\* the ids lists given to FindArtists: every list over a known and an unknown
\* id, and the list A, B, A, Z
IdLists(rich) ==
    IF rich
    THEN SeqsUpTo({<< "A" >>, << "Z" >>}, MaxIds)
         \cup {<< << "A" >>, << "B" >>, << "A" >>, << "Z" >> >>}
    ELSE {<< << "A" >>, << "Z" >> >>}

Countries(rich) == IF rich THEN {<< "US" >>, << "SE" >>, << >>} ELSE {<< "SE" >>}

CountryPtrs ==
    {Nil, Some(<< "US" >>), Some(<< "FR" >>), Some(<< >>),
     Some(<< "FR", "&", "market", "=", "US" >>)}

LimitPtrs == {Nil, Some(0), Some(10)}

OffsetPtrs == {Nil, Some(0), Some(20)}

OptionsPtrs(rich) ==
    IF rich
    THEN {Nil} \cup {Some(Options(c, l, o)) : c \in CountryPtrs, l \in LimitPtrs, o \in OffsetPtrs}
    ELSE {Some(Options(Nil, Some(0), Nil))}

AlbumTypePtrs(rich) == IF rich THEN {Nil, Some(0), Some(3)} ELSE {Some(2)}

(* -------------------------------- state ------------------------------- *)

\* call[p]:   the caller's side of call p: where it is (pc), the method and
\*            arguments, the receiver, and the values returned
\* frame[p]:  the local variables of the method's invocation: uri and resp
\* net[p]:    the transport's record of call p: the transport used, the URLs
\*            requested, what Get returned, body reads, body closed
\* clients:   the Client values of the process, DefaultClient among them
VARIABLES call, frame, net, clients

vars == << call, frame, net, clients >>

Procs == 1..NumCalls

ClientNames == {"DefaultClient", "custom"}

IdleCall ==
    [pc |-> "idle", method |-> "", wrapper |-> FALSE, recv |-> "",
     id |-> << >>, ids |-> << >>, country |-> << >>, options |-> Nil, t |-> Nil,
     result |-> Nil, err |-> Nil]

IdleFrame == [uri |-> << >>, resp |-> Nil]

IdleNet == [transport |-> "", gets |-> << >>, out |-> Nil, reads |-> 0, closed |-> FALSE]

Init ==
    /\ call = [p \in Procs |-> IdleCall]
    /\ frame = [p \in Procs |-> IdleFrame]
    /\ net = [p \in Procs |-> IdleNet]
    /\ clients = [c \in ClientNames |->
                     [http |-> IF c = "DefaultClient" THEN "default transport"
                               ELSE "custom transport"]]

\* variant: uri and resp kept in one place shared by all calls
SharedFrame(p) == 1

\* the frame holding the locals of call p: every invocation has its own
FrameOf(p) == p

\* a package-level wrapper calls the method on DefaultClient; a direct call
\* is on any client (with few arguments: on the custom one)
Receivers(wrapper, rich) ==
    IF wrapper THEN {"DefaultClient"} ELSE IF rich THEN ClientNames ELSE {"custom"}

\* a method from its entry to c.http.Get(uri): uri is built and requested once
Begin(p, c, uri) ==
    /\ call' = [call EXCEPT ![p] = [c EXCEPT !.pc = "waiting"]]
    /\ frame' = [frame EXCEPT ![FrameOf(p)].uri = uri]
    /\ net' = [net EXCEPT ![p].transport = clients[c.recv].http,
                          ![p].gets = Append(@, frame'[FrameOf(p)].uri)]
    /\ UNCHANGED clients

CallFindArtist(p, rich) ==
    \E wrapper \in BOOLEAN, id \in Ids(rich) : \E recv \in Receivers(wrapper, rich) :
        /\ call[p].pc = "idle"
        /\ Begin(p, [IdleCall EXCEPT !.method = "FindArtist", !.wrapper = wrapper,
                                     !.recv = recv, !.id = id],
                 FindArtistURI(id))

CallFindArtists(p, rich) ==
    \E wrapper \in BOOLEAN, ids \in IdLists(rich) : \E recv \in Receivers(wrapper, rich) :
        /\ call[p].pc = "idle"
        /\ Begin(p, [IdleCall EXCEPT !.method = "FindArtists", !.wrapper = wrapper,
                                     !.recv = recv, !.ids = ids],
                 FindArtistsURI(ids))

CallArtistsTopTracks(p, rich) ==
    \E wrapper \in BOOLEAN, id \in PathIds(rich), country \in Countries(rich) :
      \E recv \in Receivers(wrapper, rich) :
        /\ call[p].pc = "idle"
        /\ Begin(p, [IdleCall EXCEPT !.method = "ArtistsTopTracks", !.wrapper = wrapper,
                                     !.recv = recv, !.id = id, !.country = country],
                 ArtistsTopTracksURI(id, country))

CallFindRelatedArtists(p, rich) ==
    \E wrapper \in BOOLEAN, id \in Ids(rich) : \E recv \in Receivers(wrapper, rich) :
        /\ call[p].pc = "idle"
        /\ Begin(p, [IdleCall EXCEPT !.method = "FindRelatedArtists", !.wrapper = wrapper,
                                     !.recv = recv, !.id = id],
                 FindRelatedArtistsURI(id))

CallArtistAlbums(p, rich) ==
    \E wrapper \in BOOLEAN, id \in PathIds(rich) : \E recv \in Receivers(wrapper, rich) :
        /\ call[p].pc = "idle"
        /\ Begin(p, [IdleCall EXCEPT !.method = "ArtistAlbums", !.wrapper = wrapper,
                                     !.recv = recv, !.id = id],
                 ArtistAlbumsURI(id))

CallArtistAlbumsOpt(p, rich) ==
    \E wrapper \in BOOLEAN, id \in {<< "A" >>}, options \in OptionsPtrs(rich),
       t \in AlbumTypePtrs(rich) : \E recv \in Receivers(wrapper, rich) :
        /\ call[p].pc = "idle"
        /\ Begin(p, [IdleCall EXCEPT !.method = "ArtistAlbumsOpt", !.wrapper = wrapper,
                                     !.recv = recv, !.id = id, !.options = options,
                                     !.t = t],
                 ArtistAlbumsOptURI(id, options, t))

\* c.http.Get returns: resp, err := c.http.Get(uri)
Deliver(p, rich) ==
    /\ call[p].pc = "waiting"
    /\ \E out \in Outcomes(call[p], rich) :
          /\ frame' = [frame EXCEPT ![FrameOf(p)].resp = Some(out)]
          /\ net' = [net EXCEPT ![p].out = Some(out)]
    /\ call' = [call EXCEPT ![p].pc = "responded"]
    /\ UNCHANGED clients

\* a method from the return of c.http.Get to its own return
Finish(p, r) ==
    /\ call' = [call EXCEPT ![p].pc = "done", ![p].result = r.result, ![p].err = r.err]
    /\ net' = [net EXCEPT ![p].reads = @ + r.reads, ![p].closed = r.closed]
    /\ UNCHANGED << frame, clients >>

Responded(p, methods) ==
    /\ call[p].pc = "responded"
    /\ call[p].method \in methods
    /\ ~IsNil(frame[FrameOf(p)].resp)

ReturnFindArtist(p) ==
    /\ Responded(p, {"FindArtist"})
    /\ Finish(p, FindArtistReturn(Deref(frame[FrameOf(p)].resp)))

ReturnFindArtists(p) ==
    /\ Responded(p, {"FindArtists"})
    /\ Finish(p, FindArtistsReturn(Deref(frame[FrameOf(p)].resp)))

ReturnArtistsTopTracks(p) ==
    /\ Responded(p, {"ArtistsTopTracks"})
    /\ Finish(p, ArtistsTopTracksReturn(Deref(frame[FrameOf(p)].resp)))

ReturnFindRelatedArtists(p) ==
    /\ Responded(p, {"FindRelatedArtists"})
    /\ Finish(p, FindRelatedArtistsReturn(Deref(frame[FrameOf(p)].resp)))

ReturnArtistAlbumsOpt(p) ==
    /\ Responded(p, {"ArtistAlbums", "ArtistAlbumsOpt"})
    /\ Finish(p, ArtistAlbumsOptReturn(Deref(frame[FrameOf(p)].resp)))

\* the caller has taken the returned values; the invocation is gone
Forget(p) ==
    /\ call[p].pc = "done"
    /\ call' = [call EXCEPT ![p] = IdleCall]
    /\ frame' = [frame EXCEPT ![FrameOf(p)] = IdleFrame]
    /\ net' = [net EXCEPT ![p] = IdleNet]
    /\ UNCHANGED clients

Step(p, rich) ==
    \/ CallFindArtist(p, rich)
    \/ CallFindArtists(p, rich)
    \/ CallArtistsTopTracks(p, rich)
    \/ CallFindRelatedArtists(p, rich)
    \/ CallArtistAlbums(p, rich)
    \/ CallArtistAlbumsOpt(p, rich)
    \/ Deliver(p, rich)
    \/ ReturnFindArtist(p)
    \/ ReturnFindArtists(p)
    \/ ReturnArtistsTopTracks(p)
    \/ ReturnFindRelatedArtists(p)
    \/ ReturnArtistAlbumsOpt(p)
    \/ Forget(p)

\* one call at a time, over the full range of arguments and responses
Next == Step(1, TRUE)

Spec == Init /\ [][Next]_vars

\* NumCalls calls in flight at once, over a few arguments and responses
NextConc == \E p \in Procs : Step(p, FALSE)

SpecConc == Init /\ [][NextConc]_vars

(* ------------------------ reading a state ----------------------------- *)

Started(p) == call[p].pc # "idle"
Done(p) == call[p].pc = "done"
\* what the transport returned to call p
Out(p) == Deref(net[p].out)
\* call p is done and the transport gave it a response
Answered(p) == Done(p) /\ IsNil(Out(p).err)
\* the URL call p requested
Requested(p) == net[p].gets[1]
\* the error of call p is the one decodeError makes of the response body
FromDecodeError(p) == call[p].err = Some(decodeError(Out(p).body))
\* the error of call p is nil or comes from decoding the body as a result
FromBodyDecode(p) == IsNil(call[p].err) \/ call[p].err = Some(JSONError)
IsAlbumsCall(p) == call[p].method \in {"ArtistAlbums", "ArtistAlbumsOpt"}
ParamNames(uri) == {Params(uri)[i].key[1] : i \in 1..Len(Params(uri))}
AlbumsPath(id) == << baseAddress, "artists", "/" >> \o id \o << "/", "albums" >>

(* ------------------------------- C1 ----------------------------------- *)

\* C1 as stated: for every endpoint method and every status, the call
\* returns the decoded error with a nil result exactly when the status is
\* not 2xx, and every 2xx response is decoded as a result.
C1_Original ==
    \A p \in Procs : Answered(p) =>
        /\ (FromDecodeError(p) /\ IsNil(call[p].result)) <=> ~Is2xx(Out(p).status)
        /\ Is2xx(Out(p).status) => FromBodyDecode(p)

\* C1 amended: for every endpoint method and every status, the call returns
\* the decoded error with a nil result exactly when the status is not 200;
\* only a 200 response has its body decoded as a result (201 and 204 are
\* answered with the decoded error).
C1_StatusOKOnly ==
    \A p \in Procs : Answered(p) =>
        /\ (FromDecodeError(p) /\ IsNil(call[p].result)) <=> Out(p).status # 200
        /\ Out(p).status = 200 => FromBodyDecode(p) /\ net[p].reads = 1
        /\ Out(p).status # 200 => net[p].reads = 1

\* a call answered 201 has returned the decoded error
C1_Witness ==
    \E p \in Procs :
        /\ Answered(p) /\ Out(p).status = 201
        /\ FromDecodeError(p) /\ IsNil(call[p].result)

(* ------------------------------- C2 ----------------------------------- *)

\* C2: every endpoint call issues exactly one GET and never retries; when
\* Get returns an error the call returns that same error with a nil result,
\* requests nothing more and reads no body; after a status other than 200 or
\* a decode failure there is no second GET either.
C2_OneGetNoRetry ==
    \A p \in Procs :
        /\ Len(net[p].gets) = (IF Started(p) THEN 1 ELSE 0)
        /\ Done(p) /\ ~IsNil(Out(p).err) =>
              /\ call[p].err = Out(p).err
              /\ IsNil(call[p].result)
              /\ net[p].reads = 0 /\ ~net[p].closed
        /\ Answered(p) => net[p].reads = 1 /\ net[p].closed

\* a call whose Get failed has returned the transport's error after one GET
C2_Witness ==
    \E p \in Procs :
        /\ Done(p) /\ Out(p).err = Some(TransportError("refused"))
        /\ call[p].err = Some(TransportError("refused"))
        /\ Len(net[p].gets) = 1

(* ------------------------------- C3 ----------------------------------- *)

\* the artists array of a 200 body
ArtistsArray(p) == Lookup(Out(p).body.v, "artists")

ExampleIds == << << "A" >>, << "B" >>, << "A" >>, << "Z" >> >>

Entity(id) == [Name |-> "artist " \o id, ID |-> id, URI |-> "", Endpoint |-> "",
               Popularity |-> 50]

\* C3: FindArtists sends the ids comma-joined in the caller's order,
\* duplicates kept, in the "ids" parameter; a 200 response decoded without
\* error gives the server's artists array element for element: same length,
\* same order, null as a nil entry; for ids A, B, A, Z with Z unknown to the
\* service the result is entity(A), entity(B), entity(A), nil.
C3_BatchOrderAndHoles ==
    \A p \in Procs : Started(p) /\ call[p].method = "FindArtists" =>
        /\ LET sent == ParamValues(Requested(p), "ids")
           IN  /\ Len(sent) = 1
               /\ IF call[p].ids = << >> THEN sent[1] = << >>
                  ELSE Split(sent[1], ",") = call[p].ids
        /\ ( /\ Answered(p) /\ Out(p).status = 200 /\ IsNil(call[p].err)
             /\ HasMember(Out(p).body.v, "artists") /\ ArtistsArray(p).k = "arr" ) =>
              /\ ~IsNil(call[p].result)
              /\ LET arr == ArtistsArray(p).a
                     res == Deref(call[p].result)
                 IN  /\ Len(res) = Len(arr)
                     /\ \A i \in 1..Len(arr) :
                           /\ IsNil(res[i]) <=> arr[i].k = "null"
                           /\ ~IsNil(res[i]) => Deref(res[i]).ID = Lookup(arr[i], "id").s
        /\ ( /\ Done(p) /\ call[p].ids = ExampleIds
             /\ Out(p) = ServiceArtists(ExampleIds) ) =>
              /\ IsNil(call[p].err)
              /\ call[p].result =
                    Some(<< Some(Entity("A")), Some(Entity("B")), Some(Entity("A")), Nil >>)

\* FindArtists(A, B, A, Z), answered by the service, has returned four
\* entries, the last one nil
C3_Witness ==
    \E p \in Procs :
        /\ Done(p) /\ call[p].method = "FindArtists" /\ call[p].ids = ExampleIds
        /\ Out(p) = ServiceArtists(ExampleIds)
        /\ Len(Deref(call[p].result)) = 4
        /\ IsNil(Deref(call[p].result)[4])

(* ------------------------------- C4 ----------------------------------- *)

\* C4: in ArtistAlbumsOpt with non-nil options, the query carries market
\* exactly once: CountryUSA when Country is unset, the caller's value (and
\* not the fallback put in its place) when Country is set.
C4_MarketFallback ==
    \A p \in Procs :
        ( /\ Started(p) /\ call[p].method = "ArtistAlbumsOpt"
          /\ ~IsNil(call[p].options) ) =>
            LET market  == ParamValues(Requested(p), "market")
                country == Deref(call[p].options).Country
            IN  /\ Len(market) = 1
                /\ IsNil(country) => market[1] = CountryUSA
                /\ ~IsNil(country) => market[1] = Deref(country)

\* a call with options whose Country is unset has requested market=US
C4_Witness ==
    \E p \in Procs :
        /\ Started(p) /\ call[p].method = "ArtistAlbumsOpt"
        /\ ~IsNil(call[p].options) /\ IsNil(Deref(call[p].options).Country)
        /\ ParamValues(Requested(p), "market") = << << "US" >> >>

(* ------------------------------- C5 ----------------------------------- *)

EmptyOptions == Some(Options(Nil, Nil, Nil))

\* C5 as stated: with no fields set, the URL ArtistAlbumsOpt requests is
\* exactly baseAddress + "artists/" + id + "/albums", with no "?", for
\* non-nil empty options as for nil options; ArtistAlbums(id) requests the
\* URL of ArtistAlbumsOpt(id, nil, nil).
C5_Original ==
    \A p \in Procs :
        ( /\ Started(p) /\ IsAlbumsCall(p)
          /\ call[p].options \in {Nil, EmptyOptions}
          /\ IsNil(call[p].t) ) => Requested(p) = AlbumsPath(call[p].id)

\* C5 amended: with nil options the URL is exactly baseAddress + "artists/"
\* + id + "/albums", with no "?"; with non-nil options that have no field
\* set (and no album type) the query string is not empty: it is exactly
\* market=CountryUSA; ArtistAlbums(id) requests the URL of
\* ArtistAlbumsOpt(id, nil, nil).
C5_NilOptionsNoQuery ==
    \A p \in Procs : Started(p) /\ IsAlbumsCall(p) =>
        /\ IsNil(call[p].options) =>
              /\ Requested(p) = AlbumsPath(call[p].id)
              /\ ~HasQuery(Requested(p))
        /\ call[p].options = EmptyOptions /\ IsNil(call[p].t) =>
              Requested(p) = AlbumsPath(call[p].id) \o << "?", "market", "=" >> \o CountryUSA
        /\ call[p].method = "ArtistAlbums" =>
              /\ IsNil(call[p].options) /\ IsNil(call[p].t)
              /\ Requested(p) = AlbumsPath(call[p].id)

\* ArtistAlbumsOpt with non-nil options that set nothing has requested a URL
\* with a query string
C5_Witness ==
    \E p \in Procs :
        /\ Started(p) /\ call[p].method = "ArtistAlbumsOpt"
        /\ call[p].options = EmptyOptions /\ IsNil(call[p].t)
        /\ HasQuery(Requested(p))

(* ------------------------------- C6 ----------------------------------- *)

\* C6: for every combination of arguments to ArtistAlbumsOpt (options nil or
\* not, Limit, Offset and the album type each set or not), album_type is in
\* the query if and only if t is non-nil, limit if and only if Limit is set,
\* offset if and only if Offset is set, whatever the value: a Limit or Offset
\* of 0 is sent as limit=0, offset=0.
C6_ExactlyTheSetParameters ==
    \A p \in Procs : Started(p) /\ call[p].method = "ArtistAlbumsOpt" =>
        LET names  == ParamNames(Requested(p))
            limit  == IF IsNil(call[p].options) THEN Nil ELSE Deref(call[p].options).Limit
            offset == IF IsNil(call[p].options) THEN Nil ELSE Deref(call[p].options).Offset
        IN  /\ "album_type" \in names <=> ~IsNil(call[p].t)
            /\ "limit" \in names <=> ~IsNil(limit)
            /\ "offset" \in names <=> ~IsNil(offset)
            /\ ~IsNil(limit) =>
                  /\ IsNumeral(ParamValues(Requested(p), "limit")[1])
                  /\ Atoi(ParamValues(Requested(p), "limit")[1]) = Deref(limit)
            /\ ~IsNil(offset) =>
                  /\ IsNumeral(ParamValues(Requested(p), "offset")[1])
                  /\ Atoi(ParamValues(Requested(p), "offset")[1]) = Deref(offset)

(* ------------------------------- C7 ----------------------------------- *)

IsText(v) == v.k = "str"
IsNumber(v) == v.k = "num"
IsItem(v) ==
    /\ v.k = "obj"
    /\ HasMember(v, "id") /\ IsText(Lookup(v, "id"))
    /\ HasMember(v, "name") /\ IsText(Lookup(v, "name"))

\* a body that is a page envelope with every member present and of its type
WellFormedPage(body) ==
    /\ body.wf /\ ~body.junk /\ body.v.k = "obj"
    /\ \A key \in {"href", "total", "limit", "offset", "next", "previous", "items"} :
          HasMember(body.v, key)
    /\ IsText(Lookup(body.v, "href"))
    /\ \A key \in {"total", "limit", "offset"} : IsNumber(Lookup(body.v, key))
    /\ \A key \in {"next", "previous"} : Lookup(body.v, key).k \in {"str", "null"}
    /\ Lookup(body.v, "items").k = "arr"
    /\ \A i \in 1..Len(Lookup(body.v, "items").a) : IsItem(Lookup(body.v, "items").a[i])

\* C7: from a 200 response whose body is a well-formed page envelope,
\* ArtistAlbumsOpt returns a page whose Endpoint, Total, Limit, Offset, Next
\* and Previous are the envelope's href, total, limit, offset, next and
\* previous, and whose Albums are the envelope's items, as many and in the
\* same order; Total may exceed the number of Albums: total 37, limit 10,
\* offset 20 and ten items give Total 37, Limit 10, Offset 20 and ten albums
\* in the order received.
C7_PageAsReceived ==
    \A p \in Procs :
        ( /\ Answered(p) /\ IsAlbumsCall(p) /\ Out(p).status = 200
          /\ WellFormedPage(Out(p).body) ) =>
            /\ IsNil(call[p].err) /\ ~IsNil(call[p].result)
            /\ LET env  == Out(p).body.v
                   page == Deref(call[p].result)
                   its  == Lookup(env, "items").a
               IN  /\ page.Endpoint = Lookup(env, "href").s
                   /\ page.Total = Lookup(env, "total").n
                   /\ page.Limit = Lookup(env, "limit").n
                   /\ page.Offset = Lookup(env, "offset").n
                   /\ page.Next = Lookup(env, "next").s
                   /\ page.Previous = Lookup(env, "previous").s
                   /\ ~IsNil(page.Albums)
                   /\ Len(Deref(page.Albums)) = Len(its)
                   /\ \A i \in 1..Len(its) :
                         /\ Deref(page.Albums)[i].ID = Lookup(its[i], "id").s
                         /\ Deref(page.Albums)[i].Name = Lookup(its[i], "name").s
                   /\ Out(p).body = Body(ExamplePage) =>
                         /\ page.Total = 37 /\ page.Limit = 10 /\ page.Offset = 20
                         /\ [i \in 1..10 |-> Deref(page.Albums)[i].ID]
                               = << "j", "c", "a", "h", "b", "e", "d", "g", "f", "i" >>

\* the page of the example has been returned: Total 37 and ten albums
C7_Witness ==
    \E p \in Procs :
        /\ Answered(p) /\ call[p].method = "ArtistAlbumsOpt"
        /\ Out(p) = Response(200, Body(ExamplePage))
        /\ ~IsNil(call[p].result)
        /\ Deref(call[p].result).Total = 37
        /\ Len(Deref(Deref(call[p].result).Albums)) = 10

(* ------------------------------- C8 ----------------------------------- *)

Scalars == {"href", "total", "limit", "offset", "next", "previous"}
RequiredScalars == {"href", "total", "limit", "offset"}
KindOf(key) == IF key \in {"total", "limit", "offset"} THEN "num" ELSE "str"

Absent(body, key) == body.wf /\ body.v.k = "obj" /\ ~HasMember(body.v, key)
\* the member is there with a value of another type (null is of every type)
Mistyped(body, key) ==
    /\ body.wf /\ body.v.k = "obj" /\ HasMember(body.v, key)
    /\ Lookup(body.v, key).k \notin {KindOf(key), "null"}

\* the items payload is not null and not an array of album objects and nulls
ItemsUndecodable(body) ==
    /\ body.wf /\ body.v.k = "obj" /\ HasMember(body.v, "items")
    /\ LET items == Lookup(body.v, "items")
       IN  /\ items.k # "null"
           /\ \/ items.k # "arr"
              \/ \E i \in 1..Len(items.a) :
                    /\ items.a[i].k # "null"
                    /\ \/ items.a[i].k # "obj"
                       \/ \E key \in {"id", "name"} :
                             /\ HasMember(items.a[i], key)
                             /\ Lookup(items.a[i], key).k \notin {"str", "null"}

\* the body as a whole is not one well-formed JSON value
NotWellFormedJSON(body) == ~body.wf \/ body.junk

AlbumsAnswered200(p) == Answered(p) /\ IsAlbumsCall(p) /\ Out(p).status = 200

NilPageAndDecodeError(p) == IsNil(call[p].result) /\ call[p].err = Some(JSONError)

C9_ResultXorError ==
    \A p \in Procs : Done(p) =>
        /\ IsNil(call[p].result) \/ IsNil(call[p].err)
        /\ call[p].method = "FindArtist" \/ IsAlbumsCall(p) =>
              ~(IsNil(call[p].result) /\ IsNil(call[p].err))
        /\ ( /\ call[p].method = "FindArtist" /\ call[p].id \notin Known
             /\ Out(p) = ServiceArtist(call[p].id) ) =>
              /\ IsNil(call[p].result)
              /\ call[p].err = Some(APIError(404, "not found"))

\* FindArtist of the unknown id, answered 404 by the service, has returned a
\* nil artist and the API error
C9_Witness ==
    \E p \in Procs :
        /\ Done(p) /\ call[p].method = "FindArtist" /\ call[p].id = << "Z" >>
        /\ Out(p) = ServiceArtist(<< "Z" >>)
        /\ IsNil(call[p].result) /\ ~IsNil(call[p].err)

(* ------------------------------- C10 ---------------------------------- *)

\* the URL a call requests when run alone
AloneURI(c) ==
    CASE c.method = "FindArtist"         -> FindArtistURI(c.id)
      [] c.method = "FindArtists"        -> FindArtistsURI(c.ids)
      [] c.method = "ArtistsTopTracks"   -> ArtistsTopTracksURI(c.id, c.country)
      [] c.method = "FindRelatedArtists" -> FindRelatedArtistsURI(c.id)
      [] c.method = "ArtistAlbums"       -> ArtistAlbumsOptURI(c.id, Nil, Nil)
      [] OTHER                           -> ArtistAlbumsOptURI(c.id, c.options, c.t)

\* what a call returns when run alone and given the response out
AloneReturn(c, out) ==
    CASE c.method = "FindArtist"         -> FindArtistReturn(out)
      [] c.method = "FindArtists"        -> FindArtistsReturn(out)
      [] c.method = "ArtistsTopTracks"   -> ArtistsTopTracksReturn(out)
      [] c.method = "FindRelatedArtists" -> FindRelatedArtistsReturn(out)
      [] OTHER                           -> ArtistAlbumsOptReturn(out)

\* C10: calls in flight at once on the same Client do not interfere: under
\* every interleaving each call requests the URL of its own arguments and
\* returns what its own response decodes to, as it would when run alone; no
\* call writes the clients; a package-level wrapper uses the transport of
\* DefaultClient, as the method called on DefaultClient does.
C10_NoInterference ==
    /\ clients = [c \in ClientNames |->
                     [http |-> IF c = "DefaultClient" THEN "default transport"
                               ELSE "custom transport"]]
    /\ \A p \in Procs :
          /\ Started(p) =>
                /\ net[p].gets = << AloneURI(call[p]) >>
                /\ net[p].transport = clients[call[p].recv].http
                /\ call[p].wrapper => net[p].transport = clients["DefaultClient"].http
          /\ Done(p) =>
                /\ call[p].result = AloneReturn(call[p], Out(p)).result
                /\ call[p].err = AloneReturn(call[p], Out(p)).err

\* a call made through a wrapper is done while another call, given another
\* response, is still in flight
C10_Witness ==
    \E p, q \in Procs :
        /\ p # q /\ Done(p) /\ call[p].wrapper
        /\ call[q].pc = "responded" /\ net[q].out # net[p].out
        /\ call[q].method = call[p].method

====
